---- MODULE Spec2Model ----
(***************************************************************************)
(* greenlight: the live-configuration and admission-control subsystem.     *)
(*                                                                         *)
(* The model follows cmd/api/main.go (startup, the three OnConfigChange    *)
(* callbacks), internal/config (LoadConfig) and cmd/api/middleware.go      *)
(* (rateLimit: the per-client map, its mutex and the sweep goroutine).     *)
(* Data access is followed through updateMovieHandler and MovieModel's     *)
(* Get and Update, which read the PoolWrapper's pool at each operation.    *)
(*                                                                         *)
(* Time is counted in milliseconds, tokens in thousandths of a token, so   *)
(* that a limit of r tokens per second refills r milli-tokens per          *)
(* millisecond and all arithmetic stays in the integers.                   *)
(***************************************************************************)
EXTENDS Integers, FiniteSets, Sequences, TLC

\* ------------------------------------------------------------------ bounds

\* How many events of the environment (a request arriving, a file edited,
\* the clock advancing) a run of each specification takes.
MaxEvents == 5
MaxBurstEvents == 6
MaxWatchEvents == 4
MaxStartEvents == 3
MaxPoolEvents == 4
MaxTouchEvents == 4
MaxMailEvents == 4
MaxPanicEvents == 4
MaxStopEvents == 4
MaxGateEvents == 5
MaxSlowEvents == 4
MaxFacetEvents == 4
MaxServeEvents == 4
MaxEditEvents == 4
\* How many fsnotify events of one file may wait for its watcher.
MaxPending == 2

\* --------------------------------------------------------- program constants

\* One second, in milliseconds (limiter rates are per second).
Second == 1000
\* time.Minute, the sweep goroutine's sleep.
Minute == 60000
\* 3*time.Minute: an entry idle for longer is deleted by the sweep.
IdleThreshold == 3 * Minute
\* 100*time.Millisecond: the callbacks' debounce window.
Debounce == 100
\* The zero time.Time of a limiter that has never been advanced.
ZeroTime == 0 - 1
\* 30*time.Second: the time serve() gives srv.Shutdown.
GracePeriod == 30 * Second
\* http.StatusTooManyRequests.
StatusTooManyRequests == 429
\* http.StatusOK, http.StatusConflict, http.StatusUnprocessableEntity and
\* http.StatusInternalServerError.
StatusOK == 200
StatusConflict == 409
StatusUnprocessableEntity == 422
StatusInternalServerError == 500

\* ------------------------------------------------------------------ domains

\* Client addresses (realip.FromRequest).
IPs == {"a", "b"}
\* Request goroutines running the middleware concurrently.
Reqs == {1, 2}
\* The mutex when nobody holds it.
Unlocked == 0
\* Request goroutines running a handler with two data-access operations.
Handlers == {1, 2}
\* Request goroutines running updateMovieHandler or activateUserHandler.
Editors == {1, 2}
\* The titles an update may carry (0: one that ValidateMovie refuses).
Titles == {0, 2, 3}
\* The three watched files.
Sources == {"dynamic", "db", "smtp"}
\* LIMITER_RPS and LIMITER_BURST values a file may hold.
Rates == {1, 2}
Bursts == {1, 2}
\* Clock advances of the limiter's time scale (a second of refill, the idle
\* threshold of the sweep) and of the watcher's.
CoarseSteps == {Second, IdleThreshold}
FineSteps == {Debounce \div 2, Debounce + Debounce \div 2}

Min(x, y) == IF x < y THEN x ELSE y

VARIABLES
    now,        \* the wall clock, ms
    events,     \* events of the environment so far
    alive,      \* FALSE once os.Exit(1) ran
    file,       \* contents of each watched file
    pending,    \* fsnotify events not yet delivered, per source
    cfgDynamic, \* the shared config.Config value, LoadTime included
    limiter,    \* *config.LimiterConfig, shared by cfg and app.config
    smtp,       \* *config.SMTPConfig
    dbConnString,
    pool,       \* the PoolWrapper: [open, serial]; of the last CreatePool its
                \* err and what became of the candidate pool it built (cand)
    wpc,        \* each watcher callback's position
    mu,         \* rateLimit's mutex: Unlocked, or the request goroutine holding it
    clients,    \* rateLimit's map ip -> client
    req,        \* each request goroutine: [pc, ip, rps]
    last,       \* bookkeeping: the call that finished last: [ip, en, out]
    sweep,      \* the sweep goroutine: [pc, from]
    track,      \* bookkeeping: per ip, the requests of its first burst
    notes,      \* bookkeeping: per source, its last two notifications
    main,       \* main(): [pc, loaded, sig, sent], its position, the files it
                \* loaded, the position of serve()'s signal goroutine and the
                \* number of values that goroutine sent on shutdownError
    handler,    \* each data-access request: [pc, g1, g2, err]
    mail,       \* the goroutine sending a mail: its position and what it read
    quit,       \* the time the shutdown signal came, ZeroTime before
    store,      \* the database: the movie row, the user row, the user's tokens
    edit        \* each request that updates a row: [pc, kind, v, val, err, ...]

vars == << now, events, alive, file, pending, cfgDynamic, limiter, smtp,
           dbConnString, pool, wpc, mu, clients, req, last, sweep, track, notes,
           main, handler, mail, quit, store, edit >>

\* ------------------------------------------------- golang.org/x/time/rate

\* rate.NewLimiter(r, b): no tokens yet and a zero last time, so that the
\* first advance sees an unbounded elapsed time and fills the bucket.
NewLimiter(r, b) == [limit |-> r, burst |-> b, tokens |-> 0, last |-> ZeroTime]

\* LimiterRps is a float64: a rate r > 0 stands for r tokens per second, a
\* rate r < 0 for one token per -r seconds.
SlowRate == 0 - 200

\* Limit.tokensFromDuration: the milli-tokens a limiter of rate r gains in d
\* milliseconds.
Gain(r, d) == IF r > 0 THEN d * r ELSE d \div (0 - r)

\* Limiter.advance: the tokens available at time t, capped at burst.
Tokens(lim, t) ==
    IF lim.last = ZeroTime
    THEN lim.burst * Second
    ELSE Min(lim.burst * Second, lim.tokens + Gain(lim.limit, t - lim.last))

\* Limiter.Allow at time t succeeds when a whole token is available.
Allows(lim, t) == Tokens(lim, t) >= Second

\* A Limiter.Allow that admits without taking the token.
AfterAllowKeepsToken(lim, t) ==
    IF Allows(lim, t)
    THEN [lim EXCEPT !.tokens = Tokens(lim, t), !.last = t]
    ELSE lim

\* Limiter.Allow at time t: a token is taken and last moves only on success.
AfterAllow(lim, t) ==
    IF Allows(lim, t)
    THEN [lim EXCEPT !.tokens = Tokens(lim, t) - Second, !.last = t]
    ELSE lim

\* ------------------------------------------------------------ file contents

\* What a file may hold: a well-formed value, or text that fails to decode.
\* For dynamic.env the limiter settings at startup and those an edit may
\* write (a lower burst with another rate, or the limiter switched off); for
\* the other two files the version of their contents.
StartLimiter == [rps |-> 1, burst |-> 2, enabled |-> TRUE]
EditedLimiter == {[rps |-> 2, burst |-> 1, enabled |-> TRUE],
                  [rps |-> 1, burst |-> 2, enabled |-> FALSE]}
Contents(s) ==
    IF s = "dynamic"
    THEN [ok : {TRUE}, val : EditedLimiter] \cup {[ok |-> FALSE, val |-> StartLimiter]}
    ELSE [ok : {TRUE}, val : {1, 2}] \cup {[ok |-> FALSE, val |-> 1]}

\* Variant: an Unmarshal that zeroes the fields its file has no key for.
UnmarshalZeroFields(s, cfg, v) ==
    IF s = "dynamic"
    THEN [cfg EXCEPT !.LimiterRps = v.rps, !.LimiterBurst = v.burst,
                     !.LimiterEnabled = v.enabled, !.DB = 0, !.SMTP = 0]
    ELSE IF s = "db" THEN [cfg EXCEPT !.DB = v, !.SMTP = 0]
    ELSE [cfg EXCEPT !.SMTP = v, !.DB = 0]

\* viper.Unmarshal: the keys of the file of source s are decoded into their
\* fields of cfg; the fields of the other files are left as they are.
Unmarshal(s, cfg, v) ==
    IF s = "dynamic"
    THEN [cfg EXCEPT !.LimiterRps = v.rps, !.LimiterBurst = v.burst,
                     !.LimiterEnabled = v.enabled]
    ELSE IF s = "db" THEN [cfg EXCEPT !.DB = v]
    ELSE [cfg EXCEPT !.SMTP = v]

\* cfg.smtp's four fields, all taken from one version of the credentials.
SMTPOf(v) == [Username |-> v, Password |-> v, AuthAddress |-> v, ServerAddress |-> v]

\* --------------------------------------------------------------- bookkeeping

\* rateLimit's map as make() leaves it.
NoClients == [ip \in {} |-> 0]

\* A request goroutine between requests, and the record of no call yet: of
\* the call that finished last, next counts the invocations of the next
\* handler and status is the status rateLimit wrote itself (0: none).
IdleReq == [pc |-> "idle", ip |-> "a", rps |-> 0]
NoCall == [ip |-> "a", en |-> FALSE, out |-> "none", next |-> 0, status |-> 0]

\* What a request that panicked got: the status answered (0: no response)
\* and whether the error was logged with the request's method and URI.
NoAnswer == [status |-> 0, logged |-> FALSE]

\* A data-access handler between requests: g1 and g2 are the pool serial
\* numbers its last request's two operations ran on (0: none), err tells
\* whether one of them returned an error, panic whether the request ended in
\* a panic, and out what it got then.
IdleHandler == [pc |-> "idle", g1 |-> 0, g2 |-> 0, err |-> FALSE,
                panic |-> FALSE, out |-> NoAnswer]

\* The rows at startup: one movie and one user who has not activated yet,
\* each at version 1, and one activation token of the user. based lists, for
\* each update of the movie that was stored, the version its request had read.
StartStore == [movie |-> [title |-> 1, version |-> 1], based |-> << >>,
               user |-> [activated |-> FALSE, version |-> 1], tokens |-> 1]

\* An update request between requests. Of its last request: kind tells the
\* handler, v the version it read, val the title it carried, err the error
\* Update returned, status the answer and deleted whether it deleted tokens.
NoEdit == [pc |-> "idle", kind |-> "none", v |-> 0, val |-> 0, err |-> "nil",
           status |-> 0, deleted |-> FALSE]

\* The mail goroutine with no mail to send: From is the sender address of
\* its last mail, the other four fields what it gave to the SMTP client.
NoMail == [pc |-> "idle", From |-> 0, Username |-> 0, Password |-> 0,
           AuthAddress |-> 0, ServerAddress |-> 0]

\* Per address: made counts the limiters built for it since it was last
\* absent from the map, born is the number of loads of dynamic.env that had
\* completed when its limiter was built, raced tells whether another request
\* of the address stood at the mutex then; the rest is the burst bookkeeping.
\* An observer may start to count the admissions of an address: since is the
\* time it started and adm its count (-1 while nobody counts).
NoTrack == [ph |-> "off", n0 |-> 0, a0 |-> 0, n1 |-> 0, a1 |-> 0,
            made |-> 0, born |-> 0, raced |-> FALSE, adm |-> 0 - 1, since |-> 0]

\* The bookkeeping of an address without entry: the observer's count stays.
Fresh(tr) == [NoTrack EXCEPT !.adm = tr.adm, !.since = tr.since]
\* Per source: n counts its loads and load is the time of the last one; prev
\* and last are its two latest notifications, each with its time, the time
\* of the source's own last load then, and whether it went on to LoadConfig.
NoNote == [at |-> 0 - 1, own |-> 0, loaded |-> FALSE]
NoNotes == [n |-> 0, load |-> 0, prev |-> NoNote, last |-> NoNote]

\* The burst bookkeeping of an entry: phase "t0" lasts while the clock stands
\* at the instant the entry was created, phase "t1" while it stands exactly
\* one second later; n0 and n1 count the limiter calls of each phase, a0 and
\* a1 those admitted. Any other passage of time ends the bookkeeping.
TrackCall(tr, adm) ==
    LET counted == [tr EXCEPT !.adm = IF @ < 0 THEN @ ELSE @ + adm]
    IN  IF tr.ph = "t0" THEN [counted EXCEPT !.n0 = @ + 1, !.a0 = @ + adm]
        ELSE IF tr.ph = "t1" THEN [counted EXCEPT !.n1 = @ + 1, !.a1 = @ + adm]
        ELSE counted

TrackTick(tr, d) ==
    IF tr.ph = "t0" /\ d = Second THEN [tr EXCEPT !.ph = "t1"]
    ELSE [Fresh(tr) EXCEPT !.made = tr.made, !.born = tr.born, !.raced = tr.raced]

\* A limiter is built for an address: the bookkeeping starts afresh when the
\* address was absent.
TrackNew(tr, absent, waiting) ==
    IF absent
    THEN [Fresh(tr) EXCEPT !.ph = "t0", !.made = 1, !.born = notes["dynamic"].n,
                           !.raced = waiting]
    ELSE [tr EXCEPT !.made = @ + 1]

\* ---------------------------------------------------------------- startup

\* main() up to app.serve(): the three files are loaded, cfg is filled from
\* cfgDynamic, the first pool is created, the middleware is built with an
\* empty map and its sweep goroutine asleep.
InitWith(c) ==
    /\ now = 0
    /\ events = 0
    /\ alive = TRUE
    /\ file = [s \in Sources |->
                 [ok |-> TRUE, val |-> IF s = "dynamic" THEN c ELSE 1]]
    /\ pending = [s \in Sources |-> 0]
    /\ cfgDynamic = [LimiterRps |-> file["dynamic"].val.rps,
                     LimiterBurst |-> file["dynamic"].val.burst,
                     LimiterEnabled |-> file["dynamic"].val.enabled,
                     DB |-> 1, SMTP |-> 1, LoadTime |-> 0]
    /\ limiter = [Rps |-> cfgDynamic.LimiterRps, Burst |-> cfgDynamic.LimiterBurst,
                  Enabled |-> cfgDynamic.LimiterEnabled]
    /\ smtp = SMTPOf(1)
    /\ dbConnString = 1
    /\ pool = [open |-> TRUE, serial |-> 1, err |-> FALSE, cand |-> "published"]
    /\ wpc = [s \in Sources |-> "idle"]
    /\ mu = Unlocked
    /\ clients = NoClients
    /\ req = [r \in Reqs |-> IdleReq]
    /\ last = NoCall
    /\ sweep = [pc |-> "sleep", from |-> 0]
    /\ track = [ip \in IPs |-> NoTrack]
    /\ notes = [s \in Sources |-> NoNotes]
    /\ main = [pc |-> "Serving", loaded |-> Sources, sig |-> "quit", sent |-> 0]
    /\ handler = [h \in Handlers |-> IdleHandler]
    /\ mail = NoMail
    /\ quit = ZeroTime
    /\ store = StartStore
    /\ edit = [e \in Editors |-> NoEdit]

Init == InitWith(StartLimiter)

\* main.go:78. var cfgDynamic config.Config, before any file is loaded.
ZeroConfig == [LimiterRps |-> 0, LimiterBurst |-> 0, LimiterEnabled |-> FALSE,
               DB |-> 0, SMTP |-> 0, LoadTime |-> ZeroTime]

\* main() at its first LoadConfig: the files hold anything, nothing is built.
InitStart ==
    /\ now = 0
    /\ events = 0
    /\ alive = TRUE
    /\ \E d \in Contents("dynamic"), b \in Contents("db"), m \in Contents("smtp") :
           file = [s \in Sources |-> IF s = "dynamic" THEN d ELSE IF s = "db" THEN b ELSE m]
    /\ pending = [s \in Sources |-> 0]
    /\ cfgDynamic = ZeroConfig
    /\ limiter = [Rps |-> 0, Burst |-> 0, Enabled |-> FALSE]
    /\ smtp = SMTPOf(0)
    /\ dbConnString = 0
    /\ pool = [open |-> FALSE, serial |-> 0, err |-> FALSE, cand |-> "none"]
    /\ wpc = [s \in Sources |-> "idle"]
    /\ mu = Unlocked
    /\ clients = NoClients
    /\ req = [r \in Reqs |-> IdleReq]
    /\ last = NoCall
    /\ sweep = [pc |-> "sleep", from |-> 0]
    /\ track = [ip \in IPs |-> NoTrack]
    /\ notes = [s \in Sources |-> NoNotes]
    /\ main = [pc |-> "dynamic", loaded |-> {}, sig |-> "off", sent |-> 0]
    /\ handler = [h \in Handlers |-> IdleHandler]
    /\ mail = NoMail
    /\ quit = ZeroTime
    /\ store = StartStore
    /\ edit = [e \in Editors |-> NoEdit]

\* What main() does after it loaded the file of s.
AfterLoad(s) == IF s = "dynamic" THEN "db" ELSE IF s = "db" THEN "smtp" ELSE "Build"

\* main.go:82-102. main() loads the file of s: a file that does not decode
\* makes it log the error and call os.Exit(1).
StartLoad(s) ==
    /\ alive
    /\ main.pc = s
    /\ IF file[s].ok
       THEN /\ cfgDynamic' = [Unmarshal(s, cfgDynamic, file[s].val) EXCEPT !.LoadTime = now]
            /\ main' = [main EXCEPT !.pc = AfterLoad(s), !.loaded = @ \cup {s}]
            /\ notes' = [notes EXCEPT ![s].load = now]
            /\ UNCHANGED alive
       ELSE /\ alive' = FALSE
            /\ UNCHANGED << cfgDynamic, main, notes >>
    /\ UNCHANGED << now, file, pending, limiter, smtp, dbConnString, pool, wpc,
                    mu, clients, req, last, sweep, track, handler, mail, quit,
                    store, edit >>

\* main.go:104-119. cfg.limiter, cfg.dbConnString and cfg.smtp are built.
BuildConfig ==
    /\ alive
    /\ main.pc = "Build"
    /\ limiter' = [Rps |-> cfgDynamic.LimiterRps, Burst |-> cfgDynamic.LimiterBurst,
                   Enabled |-> cfgDynamic.LimiterEnabled]
    /\ dbConnString' = cfgDynamic.DB
    /\ smtp' = SMTPOf(cfgDynamic.SMTP)
    /\ main' = [main EXCEPT !.pc = "CreatePool"]
    /\ UNCHANGED << now, alive, file, pending, cfgDynamic, pool, wpc,
                    mu, clients, req, last, sweep, track, notes, handler, mail, quit,
                    store, edit >>

\* Variant: a CreatePool that returns the ping's error with its candidate
\* pool left open.
AfterFailedPingOpen == "open"

\* permission.go:115-119. The candidate pool after a ping that failed:
\* p.Close() ran before the error is returned. (A pgxpool.New that failed
\* built no candidate, :110-113.)
AfterFailedPing == "closed"

\* main.go:122-127. The first pool: when CreatePool fails main() logs the
\* error and calls os.Exit(1).
StartPool(up) ==
    /\ alive
    /\ main.pc = "CreatePool"
    /\ IF up
       THEN /\ pool' = [open |-> TRUE, serial |-> pool.serial + 1, err |-> FALSE,
                         cand |-> "published"]
            /\ main' = [main EXCEPT !.pc = "Watch"]
            /\ UNCHANGED alive
       ELSE /\ alive' = FALSE
            /\ \E built \in BOOLEAN :
                   pool' = [pool EXCEPT !.err = TRUE,
                                        !.cand = IF built THEN AfterFailedPing ELSE "none"]
            /\ UNCHANGED main
    /\ UNCHANGED << now, file, pending, cfgDynamic, limiter, smtp, dbConnString, wpc,
                    mu, clients, req, last, sweep, track, notes, handler, mail, quit,
                    store, edit >>

\* main.go:150-229. The application is built (rateLimit with it, through
\* routes()) and the three watcher goroutines are started.
StartWatchers ==
    /\ alive
    /\ main.pc = "Watch"
    /\ main' = [main EXCEPT !.pc = "Serve"]
    /\ UNCHANGED << now, alive, file, pending, cfgDynamic, limiter, smtp, dbConnString,
                    pool, wpc, mu, clients, req, last, sweep, track, notes, handler, mail, quit,
                    store, edit >>

\* main.go:231 with part_011:29-36. app.serve(): the signal goroutine is
\* started and waits on quit, and the server listens.
Serve ==
    /\ alive
    /\ main.pc = "Serve"
    /\ main' = [main EXCEPT !.pc = "Serving", !.sig = "quit"]
    /\ UNCHANGED << now, alive, file, pending, cfgDynamic, limiter, smtp, dbConnString,
                    pool, wpc, mu, clients, req, last, sweep, track, notes, handler, mail, quit,
                    store, edit >>

\* ------------------------------------------------------------------- clock

\* Time passes by d milliseconds.
Tick(d) ==
    /\ alive
    /\ now' = now + d
    /\ track' = [ip \in IPs |-> TrackTick(track[ip], d)]
    /\ UNCHANGED << main, handler,
                    alive, file, pending, cfgDynamic, limiter, smtp, dbConnString,
                    pool, wpc, mu, clients, req, last, sweep, notes, mail, quit,
                    store, edit >>

\* An observer starts to count the admissions of address ip, at a moment
\* when no request is inside the middleware.
Observe(ip) ==
    /\ alive
    /\ track[ip].adm < 0
    /\ \A q \in Reqs : req[q].pc = "idle"
    /\ track' = [track EXCEPT ![ip].adm = 0, ![ip].since = now]
    /\ UNCHANGED << now, alive, file, pending, cfgDynamic, limiter, smtp,
                    dbConnString, pool, wpc, mu, clients, req, last, sweep, notes,
                    main, handler, mail, quit,
                    store, edit >>

\* ------------------------------------------------- rateLimit: the handler

\* part_011: the server accepts requests once main() has called app.serve().
Serving == main.pc = "Serving"

\* Variant: the flag as it stood when the middleware was built.
EnabledAtBuild == StartLimiter.enabled

\* The flag the handler tests, read through app.config.limiter on each call.
EnabledNow == limiter.Enabled

\* middleware.go:70 and :93. A request from ip enters the middleware: with the
\* limiter disabled it goes straight to the next handler, else it heads for
\* the mutex.
Begin(r, ip) ==
    /\ alive
    /\ Serving
    /\ req[r].pc = "idle"
    /\ IF EnabledNow
       THEN /\ req' = [req EXCEPT ![r] = [pc |-> "lock", ip |-> ip, rps |-> 0]]
            /\ UNCHANGED last
       ELSE /\ last' = [ip |-> ip, en |-> FALSE, out |-> "next",
                         next |-> 1, status |-> 0]
            /\ UNCHANGED req
    /\ UNCHANGED << main, handler,
                    now, alive, file, pending, cfgDynamic, limiter,
                    smtp, dbConnString, pool, wpc, mu, clients, sweep, track, notes, mail, quit,
                    store, edit >>

\* Variant: a handler that does not wait for the mutex.
MutexIgnored == TRUE

\* sync.Mutex: Lock returns only when nobody holds the mutex.
MutexFree == mu = Unlocked

\* Variant: a handler that builds a limiter on every call.
FoundNever(ip) == FALSE

\* middleware.go:76. The map lookup of the handler.
Found(ip) == ip \in DOMAIN clients

\* middleware.go:74-78. mu.Lock(), the map lookup and, for an address not
\* found, the read of Rps (the first argument of rate.NewLimiter).
Lock(r) ==
    /\ alive
    /\ req[r].pc = "lock"
    /\ MutexFree
    /\ mu' = r
    /\ req' = [req EXCEPT ![r] =
                 IF Found(req[r].ip)
                 THEN [@ EXCEPT !.pc = "allow"]
                 ELSE [@ EXCEPT !.pc = "new", !.rps = limiter.Rps]]
    /\ UNCHANGED << main, handler,
                    now, alive, file, pending, cfgDynamic, limiter,
                    smtp, dbConnString, pool, wpc, clients, last, sweep, track, notes, mail, quit,
                    store, edit >>

\* The client stored for a new address: its limiter is built from the Rps
\* read before and the Burst read now, and it has not been seen yet.
NewClient(r) == [limiter |-> NewLimiter(req[r].rps, limiter.Burst), lastSeen |-> ZeroTime]

\* middleware.go:77-79. The read of Burst and the insertion of the new client.
New(r) ==
    /\ alive
    /\ req[r].pc = "new"
    /\ clients' = (req[r].ip :> NewClient(r)) @@ clients
    /\ track' = [track EXCEPT ![req[r].ip] =
                     TrackNew(@, req[r].ip \notin DOMAIN clients,
                              \E q \in Reqs : req[q].pc = "lock" /\ req[q].ip = req[r].ip)]
    /\ req' = [req EXCEPT ![r].pc = "allow"]
    /\ UNCHANGED << main, handler,
                    now, alive, file, pending, cfgDynamic, limiter,
                    smtp, dbConnString, pool, wpc, mu, last, sweep, notes, mail, quit,
                    store, edit >>

\* Variant: a handler that leaves lastSeen as it was.
SeenStale(c, t) == c

\* middleware.go:82. The entry of ip after the handler marked it seen at t.
Seen(c, t) == [c EXCEPT !.lastSeen = t]

\* Variant: a handler without the return that follows the 429.
NextCallsNoReturn(ok) == 1

\* middleware.go:84-93. The invocations of next.ServeHTTP after the limiter
\* answered: none on a rejection, where the handler returns, else one.
NextCalls(ok) == IF ok THEN 1 ELSE 0

\* middleware.go:86 with errors.go:67-70. The status rateLimit writes itself:
\* rateLimitExceededResponse on a rejection, nothing on an admission.
Written(ok) == IF ok THEN 0 ELSE StatusTooManyRequests

\* Variant: a handler that returns on a rejection with the mutex still held.
HeldOnReject(r, ok) == IF ok THEN Unlocked ELSE r

\* middleware.go:85 and :90. mu.Unlock() on the rejection path and on the
\* admission path: the mutex after request r got the limiter's answer.
Unlock(r, ok) == Unlocked

\* Variant: a handler that marks every entry of the map.
TouchedAll(ip) == DOMAIN clients

\* middleware.go:82-84. The keys of the map a call from ip writes under:
\* clients[ip] and nothing else.
Touched(ip) == {ip}

\* middleware.go:82-90. lastSeen is set, the limiter is asked, the mutex is
\* released on either path; a rejection answers 429, an admission calls next.
Allow(r) ==
    LET ip == req[r].ip
        c == Seen(clients[ip], now)
        ok == Allows(c.limiter, now)
    IN  /\ alive
        /\ req[r].pc = "allow"
        /\ clients' = [i \in DOMAIN clients |->
                         IF i \in Touched(ip)
                         THEN [Seen(clients[i], now) EXCEPT
                                  !.limiter = AfterAllow(@, now)]
                         ELSE clients[i]]
        /\ mu' = Unlock(r, ok)
        /\ req' = [req EXCEPT ![r] = IdleReq]
        /\ last' = [ip |-> ip, en |-> TRUE, out |-> IF ok THEN "next" ELSE "429",
                     next |-> NextCalls(ok), status |-> Written(ok)]
        /\ track' = [track EXCEPT ![ip] = TrackCall(@, IF ok THEN 1 ELSE 0)]
        /\ UNCHANGED << main, handler,
                        now, alive, file, pending, cfgDynamic, limiter,
                        smtp, dbConnString, pool, wpc, sweep, notes, mail, quit,
                    store, edit >>

\* ------------------------------------------------ data-access handlers

\* part_008:82. A request reaches updateMovieHandler.
StartJob(h) ==
    /\ alive
    /\ Serving
    /\ handler[h].pc = "idle"
    /\ handler' = [handler EXCEPT ![h] = [IdleHandler EXCEPT !.pc = "Get"]]
    /\ UNCHANGED << now, alive, file, pending, cfgDynamic, limiter, smtp, dbConnString,
                    pool, wpc, mu, clients, req, last, sweep, track, notes, main, mail, quit,
                    store, edit >>

\* part_007:76 and :171. m.DB.Pool.QueryRow: the operation reads the
\* wrapper's Pool and asks it for a connection; a closed pool answers with an
\* error, which the handler turns into a 500 (part_008:95, :139).
Acquire(h) ==
    /\ alive
    /\ handler[h].pc \in {"Get", "Update"}
    /\ handler' = [handler EXCEPT ![h] =
                     IF ~pool.open THEN [@ EXCEPT !.pc = "idle", !.err = TRUE]
                     ELSE IF @.pc = "Get" THEN [@ EXCEPT !.pc = "Getting", !.g1 = pool.serial]
                     ELSE [@ EXCEPT !.pc = "Updating", !.g2 = pool.serial]]
    /\ UNCHANGED << now, alive, file, pending, cfgDynamic, limiter, smtp, dbConnString,
                    pool, wpc, mu, clients, req, last, sweep, track, notes, main, mail, quit,
                    store, edit >>

\* part_007:76-84 and :171. Scan returns and the connection goes back to its
\* pool: after Get the handler goes on to Update (part_008:100-133), after
\* Update it answers.
Release(h) ==
    /\ alive
    /\ handler[h].pc \in {"Getting", "Updating"}
    /\ handler' = [handler EXCEPT ![h].pc = IF @ = "Getting" THEN "Update" ELSE "idle"]
    /\ UNCHANGED << now, alive, file, pending, cfgDynamic, limiter, smtp, dbConnString,
                    pool, wpc, mu, clients, req, last, sweep, track, notes, main, mail, quit,
                    store, edit >>

\* ------------------------------------------------------------ recoverPanic

\* Variant: a chain whose recoverPanic wraps none of the other stages.
ChainRecoverInside ==
    << "metrics", "enableCORS", "rateLimit", "authenticate", "router", "recoverPanic" >>

\* routes.go:33. The middleware chain, outermost first; the router runs the
\* route handlers, the authorization wrappers of routes.go:19-23 included.
Chain == << "metrics", "recoverPanic", "enableCORS", "rateLimit", "authenticate", "router" >>

\* The place of a stage in the chain.
Position(st) == CHOOSE i \in DOMAIN Chain : Chain[i] = st

\* middleware.go:23-36. A panic raised in stage st unwinds through the
\* deferred function of recoverPanic when recoverPanic wraps that stage.
Guarded(st) == \E i \in DOMAIN Chain : Chain[i] = "recoverPanic" /\ i < Position(st)

\* errors.go:37-42. serverErrorResponse logs the error with the method and
\* the URI of the request (logError, :10-17) and answers 500.
serverErrorResponse == [status |-> 500, logged |-> TRUE]

\* A route handler panics between its data-access operations (as
\* user.go:93 and filter.go:36 do): with recoverPanic around it the request is
\* answered by serverErrorResponse; without, the panic reaches net/http,
\* which closes the connection with no answer. The process runs on.
Panic(h) ==
    /\ alive
    /\ handler[h].pc \in {"Get", "Update"}
    /\ handler' = [handler EXCEPT ![h] =
                     [@ EXCEPT !.pc = "idle", !.panic = TRUE,
                               !.out = IF Guarded("router") THEN serverErrorResponse
                                       ELSE NoAnswer]]
    /\ UNCHANGED << now, alive, file, pending, cfgDynamic, limiter, smtp,
                    dbConnString, pool, wpc, mu, clients, req, last, sweep, track,
                    notes, main, mail, quit,
                    store, edit >>

\* ----------------------------------------------------------------- serve

\* part_011:29-46 and :64-69. SIGINT or SIGTERM arrives: the signal
\* goroutine calls srv.Shutdown with a context of 30 s; the listeners are
\* closed at once and ListenAndServe returns http.ErrServerClosed, so that
\* serve() goes on to receive from shutdownError.
Signal ==
    /\ alive
    /\ Serving
    /\ main' = [main EXCEPT !.pc = "Receive", !.sig = "Shutdown"]
    /\ quit' = now
    /\ UNCHANGED << now, alive, file, pending, cfgDynamic, limiter, smtp,
                    dbConnString, pool, wpc, mu, clients, req, last, sweep, track,
                    notes, handler, mail,
                    store, edit >>

\* The requests in flight: those in rateLimit and those in a route handler.
InFlight ==
    (\E r \in Reqs : req[r].pc # "idle") \/ (\E h \in Handlers : handler[h].pc # "idle")

\* part_011:46-53. srv.Shutdown returns nil once no request is in flight, and
\* the signal goroutine goes on to app.wg.Wait().
ShutdownReturn ==
    /\ alive
    /\ main.sig = "Shutdown"
    /\ ~InFlight
    /\ main' = [main EXCEPT !.sig = "Wait"]
    /\ UNCHANGED << now, alive, file, pending, cfgDynamic, limiter, smtp,
                    dbConnString, pool, wpc, mu, clients, req, last, sweep, track,
                    notes, handler, mail, quit,
                    store, edit >>

\* part_011:46-47. The 30 s pass with a request still in flight: srv.Shutdown
\* returns the context's error.
ShutdownTimeout ==
    /\ alive
    /\ main.sig = "Shutdown"
    /\ InFlight
    /\ now - quit >= GracePeriod
    /\ main' = [main EXCEPT !.sig = "SendErr"]
    /\ UNCHANGED << now, alive, file, pending, cfgDynamic, limiter, smtp,
                    dbConnString, pool, wpc, mu, clients, req, last, sweep, track,
                    notes, handler, mail, quit,
                    store, edit >>

\* part_011:48-53. After shutdownError <- err the signal goroutine does not
\* return: it goes on to the log line and to app.wg.Wait().
AfterSendErr == "Wait"

\* part_011:48 with :69-72. shutdownError is unbuffered: the error is sent
\* when serve() receives it, and serve() returns it.
SendErr ==
    /\ alive
    /\ main.sig = "SendErr"
    /\ main.pc = "Receive"
    /\ main' = [main EXCEPT !.pc = "Failed", !.sig = AfterSendErr, !.sent = @ + 1]
    /\ UNCHANGED << now, alive, file, pending, cfgDynamic, limiter, smtp,
                    dbConnString, pool, wpc, mu, clients, req, last, sweep, track,
                    notes, handler, mail, quit,
                    store, edit >>

\* main.go:231-235. serve() returned an error: main() logs it and calls
\* os.Exit(1), which runs no deferred call and ends every goroutine.
ExitOnError ==
    /\ alive
    /\ main.pc = "Failed"
    /\ alive' = FALSE
    /\ UNCHANGED << now, file, pending, cfgDynamic, limiter, smtp,
                    dbConnString, pool, wpc, mu, clients, req, last, sweep, track,
                    notes, main, handler, mail, quit,
                    store, edit >>

\* The background tasks registered in app.wg that have not finished.
Background == IF mail.pc \in {"idle", "sent"} THEN 0 ELSE 1

\* part_011:58. app.wg.Wait() returns when the counter is zero.
WaitGroupDone == Background = 0

\* part_011:58-59. app.wg.Wait() returns once the background goroutines are
\* done, and the signal goroutine goes on to send nil on shutdownError.
WaitReturn ==
    /\ alive
    /\ main.sig = "Wait"
    /\ WaitGroupDone
    /\ main' = [main EXCEPT !.sig = "SendNil"]
    /\ UNCHANGED << now, alive, file, pending, cfgDynamic, limiter, smtp,
                    dbConnString, pool, wpc, mu, clients, req, last, sweep, track,
                    notes, handler, mail, quit,
                    store, edit >>

\* part_011:59 with :69-76. nil is sent when serve() receives it; serve()
\* logs and returns nil, and the signal goroutine is done. With serve() no
\* longer at its receive the send waits.
SendNil ==
    /\ alive
    /\ main.sig = "SendNil"
    /\ main.pc = "Receive"
    /\ main' = [main EXCEPT !.pc = "Return", !.sig = "done", !.sent = @ + 1]
    /\ UNCHANGED << now, alive, file, pending, cfgDynamic, limiter, smtp,
                    dbConnString, pool, wpc, mu, clients, req, last, sweep, track,
                    notes, handler, mail, quit,
                    store, edit >>

\* main.go:128. defer poolWrapper.Pool.Close() evaluates poolWrapper.Pool
\* when the defer statement runs: the deferred call is bound to the pool
\* CreatePool made at startup, the first one.
DeferredPool == 1

\* main.go:236 with :128. main() returns: the deferred Close runs on the pool
\* it is bound to (closing a pool again does nothing) and the process ends.
DeferredClose ==
    /\ alive
    /\ main.pc = "Return"
    /\ pool' = IF pool.serial = DeferredPool THEN [pool EXCEPT !.open = FALSE] ELSE pool
    /\ main' = [main EXCEPT !.pc = "Exited"]
    /\ alive' = FALSE
    /\ UNCHANGED << now, file, pending, cfgDynamic, limiter, smtp,
                    dbConnString, wpc, mu, clients, req, last, sweep, track,
                    notes, handler, mail, quit,
                    store, edit >>

\* --------------------------------------------------- updates of a row

\* part_008:82 and part_012:147. A request to update the movie with title t,
\* or to activate the user, arrives.
StartEdit(e, kind, t) ==
    /\ alive
    /\ Serving
    /\ edit[e].pc = "idle"
    /\ edit' = [edit EXCEPT ![e] = [NoEdit EXCEPT !.pc = "get", !.kind = kind, !.val = t]]
    /\ UNCHANGED << now, alive, file, pending, cfgDynamic, limiter, smtp,
                    dbConnString, pool, wpc, mu, clients, req, last, sweep, track,
                    notes, main, handler, mail, quit, store >>

\* validator.go with part_008:125-130. ValidateMovie accepts the movie.
ValidMovie(t) == t # 0

\* part_008:89-130. Movie.Get reads the row, the input is laid over it and
\* validated: a movie that fails is answered 422 and nothing is written.
GetMovie(e) ==
    /\ alive
    /\ edit[e].pc = "get" /\ edit[e].kind = "movie"
    /\ edit' = [edit EXCEPT ![e] =
                  IF ValidMovie(edit[e].val)
                  THEN [@ EXCEPT !.pc = "update", !.v = store.movie.version]
                  ELSE [@ EXCEPT !.pc = "idle", !.v = store.movie.version,
                                 !.status = StatusUnprocessableEntity]]
    /\ UNCHANGED << now, alive, file, pending, cfgDynamic, limiter, smtp,
                    dbConnString, pool, wpc, mu, clients, req, last, sweep, track,
                    notes, main, handler, mail, quit, store >>

\* Variant: an UPDATE without the version in its WHERE clause.
MatchesAnyVersion(row, v) == TRUE

\* part_007:154-156 and user.go:162-164. WHERE id = $5 AND version = $6: the
\* statement finds the row only at the version the request read.
Matches(row, v) == row.version = v

\* part_007:170-181 and user.go:178-188. Update's result: pgx.ErrNoRows, no
\* row found, is returned as ErrEditConflict.
UpdateErr(row, v) == IF Matches(row, v) THEN "nil" ELSE "ErrEditConflict"

\* part_008:133-141. updateMovieHandler's answer to an error of Update.
MovieAnswer(err) ==
    IF err = "ErrEditConflict" THEN StatusConflict ELSE StatusInternalServerError

\* part_007:152-182 with part_008:132-147. Movie.Update runs as one
\* statement: a row found is stored with its version raised by one and the
\* request is answered 200; with no row found Update returns ErrEditConflict
\* and the handler answers.
UpdateMovie(e) ==
    LET err == UpdateErr(store.movie, edit[e].v)
    IN  /\ alive
        /\ edit[e].pc = "update" /\ edit[e].kind = "movie"
        /\ IF err = "nil"
           THEN /\ store' = [store EXCEPT
                               !.movie = [title |-> edit[e].val, version |-> @.version + 1],
                               !.based = Append(@, edit[e].v)]
                /\ edit' = [edit EXCEPT ![e].pc = "idle", ![e].status = StatusOK]
           ELSE /\ edit' = [edit EXCEPT ![e].pc = "idle", ![e].err = err,
                                        ![e].status = MovieAnswer(err)]
                /\ UNCHANGED store
        /\ UNCHANGED << now, alive, file, pending, cfgDynamic, limiter, smtp,
                        dbConnString, pool, wpc, mu, clients, req, last, sweep, track,
                        notes, main, handler, mail, quit >>

\* part_012:166-176. User.GetForToken reads the user of an activation token:
\* with no such token the request is answered 422.
GetForToken(e) ==
    /\ alive
    /\ edit[e].pc = "get" /\ edit[e].kind = "user"
    /\ edit' = [edit EXCEPT ![e] =
                  IF store.tokens > 0
                  THEN [@ EXCEPT !.pc = "update", !.v = store.user.version]
                  ELSE [@ EXCEPT !.pc = "idle", !.status = StatusUnprocessableEntity]]
    /\ UNCHANGED << now, alive, file, pending, cfgDynamic, limiter, smtp,
                    dbConnString, pool, wpc, mu, clients, req, last, sweep, track,
                    notes, main, handler, mail, quit, store >>

\* part_012:182-190. activateUserHandler's answer to an error of Update: the
\* edit-conflict response for ErrRecordNotFound, serverErrorResponse for any
\* other error.
ActivationAnswer(err) ==
    IF err = "ErrRecordNotFound" THEN StatusConflict ELSE StatusInternalServerError

\* user.go:160-191 with part_012:178-190. User.Update with Activated set: a
\* row found is stored with its version raised by one; with no row found
\* Update returns ErrEditConflict and the handler answers and returns.
UpdateUser(e) ==
    LET err == UpdateErr(store.user, edit[e].v)
    IN  /\ alive
        /\ edit[e].pc = "update" /\ edit[e].kind = "user"
        /\ IF err = "nil"
           THEN /\ store' = [store EXCEPT
                               !.user = [activated |-> TRUE, version |-> @.version + 1]]
                /\ edit' = [edit EXCEPT ![e].pc = "delete"]
           ELSE /\ edit' = [edit EXCEPT ![e].pc = "idle", ![e].err = err,
                                        ![e].status = ActivationAnswer(err)]
                /\ UNCHANGED store
        /\ UNCHANGED << now, alive, file, pending, cfgDynamic, limiter, smtp,
                        dbConnString, pool, wpc, mu, clients, req, last, sweep, track,
                        notes, main, handler, mail, quit >>

\* part_012:192-203 with token.go:99-109. Token.DeleteAllForUser removes the
\* user's activation tokens and the request is answered 200.
DeleteTokens(e) ==
    /\ alive
    /\ edit[e].pc = "delete"
    /\ store' = [store EXCEPT !.tokens = 0]
    /\ edit' = [edit EXCEPT ![e].pc = "idle", ![e].deleted = TRUE,
                            ![e].status = StatusOK]
    /\ UNCHANGED << now, alive, file, pending, cfgDynamic, limiter, smtp,
                    dbConnString, pool, wpc, mu, clients, req, last, sweep, track,
                    notes, main, handler, mail, quit >>

\* ------------------------------------------------------- EmailSender.Send

\* part_012:129-135. registerUserHandler starts a background goroutine that
\* calls app.emailSender.Send.
StartSend ==
    /\ alive
    /\ Serving
    /\ mail.pc \in {"idle", "sent"}
    /\ mail' = [NoMail EXCEPT !.pc = "From"]
    /\ UNCHANGED << now, alive, file, pending, cfgDynamic, limiter, smtp,
                    dbConnString, pool, wpc, mu, clients, req, last, sweep, track,
                    notes, main, handler, quit,
                    store, edit >>

\* part_004:52. e.From is read from SMTPCfg.Username.
SendFrom ==
    /\ alive
    /\ mail.pc = "From"
    /\ mail' = [mail EXCEPT !.From = smtp.Username, !.pc = "Username"]
    /\ UNCHANGED << now, alive, file, pending, cfgDynamic, limiter, smtp,
                    dbConnString, pool, wpc, mu, clients, req, last, sweep, track,
                    notes, main, handler, quit,
                    store, edit >>

\* part_004:58-59. The arguments of smtp.PlainAuth and of e.Send are read
\* from SMTPCfg, one field at a time and under no lock.
SendRead(field, next) ==
    /\ alive
    /\ mail.pc = field
    /\ mail' = [mail EXCEPT ![field] = smtp[field], !.pc = next]
    /\ UNCHANGED << now, alive, file, pending, cfgDynamic, limiter, smtp,
                    dbConnString, pool, wpc, mu, clients, req, last, sweep, track,
                    notes, main, handler, quit,
                    store, edit >>

\* -------------------------------------------------- rateLimit: the sweep

\* middleware.go:55. time.Sleep(time.Minute) returns.
SweepWake ==
    /\ alive
    /\ sweep.pc = "sleep"
    /\ now - sweep.from >= Minute
    /\ sweep' = [sweep EXCEPT !.pc = "lock"]
    /\ UNCHANGED << main, handler,
                    now, alive, file, pending, cfgDynamic, limiter,
                    smtp, dbConnString, pool, wpc, mu, clients, req, last, track, notes, mail, quit,
                    store, edit >>

\* Variant: a sweep that lets an entry stay idle for a minute longer.
IdleLate(c, t) == t - c.lastSeen > IdleThreshold + Minute

\* Variant: a sweep that deletes an entry idle for three minutes to the
\* millisecond.
IdleEarly(c, t) == t - c.lastSeen >= IdleThreshold

\* middleware.go:60. An entry the sweep deletes at time t.
Idle(c, t) == t - c.lastSeen > IdleThreshold

\* The map after a sweep at time t.
Swept(cs, t) == [ip \in {i \in DOMAIN cs : ~Idle(cs[i], t)} |-> cs[ip]]

\* middleware.go:57-65. With the mutex held the sweep deletes every idle
\* entry, releases the mutex and goes back to sleep.
SweepRun ==
    /\ alive
    /\ sweep.pc = "lock"
    /\ MutexFree
    /\ clients' = Swept(clients, now)
    /\ track' = [ip \in IPs |-> IF ip \in DOMAIN clients' THEN track[ip]
                                 ELSE Fresh(track[ip])]
    /\ sweep' = [pc |-> "sleep", from |-> now]
    /\ UNCHANGED << main, handler,
                    now, alive, file, pending, cfgDynamic, limiter,
                    smtp, dbConnString, pool, wpc, mu, req, last, notes, mail, quit,
                    store, edit >>

\* ------------------------------------------------------ the config watchers

\* A file is written: its contents become c, and fsnotify reports the write
\* with one event or with two.
Edit(s, c, k) ==
    /\ alive
    /\ pending[s] + k <= MaxPending
    /\ file' = [file EXCEPT ![s] = c]
    /\ pending' = [pending EXCEPT ![s] = @ + k]
    /\ UNCHANGED << main, handler,
                    now, alive, cfgDynamic, limiter, smtp, dbConnString,
                    pool, wpc, mu, clients, req, last, sweep, track, notes, mail, quit,
                    store, edit >>

\* main.go:162, :183, :213. The callbacks' test: the time since the last
\* LoadConfig of any of the three files exceeds the debounce window.
PastDebounce(s) == now - cfgDynamic.LoadTime > Debounce

\* Variant: watchers started before main() loads its files.
WatchingFromStart == TRUE

\* main.go:158-229. The watchers run once main() has started their goroutines.
Watching == main.pc \in {"Serve", "Serving"}

\* Variant: a watcher that starts each callback on a goroutine of its own.
CallbackDetached(s) == TRUE

\* main.go:177, :207, :228. WatchConfig runs one goroutine per file, which
\* calls the OnConfigChange callback itself and takes the next event of the
\* file only when the callback has returned.
CallbackReturned(s) == wpc[s] = "idle"

\* main.go:159-162. The watcher of s hands one event to its callback, which
\* goes on to reload when the debounce test passes and returns when not.
Notify(s) ==
    /\ alive
    /\ Watching
    /\ CallbackReturned(s)
    /\ pending[s] > 0
    /\ pending' = [pending EXCEPT ![s] = @ - 1]
    /\ wpc' = [wpc EXCEPT ![s] = IF PastDebounce(s) THEN "load" ELSE "idle"]
    /\ notes' = [notes EXCEPT ![s].prev = notes[s].last,
                              ![s].last = [at |-> now, own |-> notes[s].load,
                                           loaded |-> PastDebounce(s)]]
    /\ UNCHANGED << main, handler,
                    now, alive, file, cfgDynamic, limiter, smtp,
                    dbConnString, pool, mu, clients, req, last, sweep, track, mail, quit,
                    store, edit >>

\* The first assignment of the callback of s after its LoadConfig.
FirstApply(s) ==
    IF s = "dynamic" THEN "Rps" ELSE IF s = "db" THEN "ConnString" ELSE "Username"

\* config.go:30-48 with main.go:166-170. LoadConfig reads the file of s: a
\* file that decodes is unmarshalled into cfgDynamic and LoadTime is set; one
\* that does not makes the callback log the error and call os.Exit(1).
Load(s) ==
    /\ alive
    /\ wpc[s] = "load"
    /\ IF file[s].ok
       THEN /\ cfgDynamic' = [Unmarshal(s, cfgDynamic, file[s].val) EXCEPT !.LoadTime = now]
            /\ wpc' = [wpc EXCEPT ![s] = FirstApply(s)]
            /\ notes' = [notes EXCEPT ![s].load = now, ![s].n = @ + 1]
            /\ UNCHANGED alive
       ELSE /\ alive' = FALSE
            /\ UNCHANGED << cfgDynamic, wpc, notes >>
    /\ UNCHANGED << main, handler,
                    now, file, pending, limiter, smtp, dbConnString,
                    pool, mu, clients, req, last, sweep, track, mail, quit,
                    store, edit >>

\* main.go:172-174. The limiter callback's three assignments, one at a time.
ApplyRps ==
    /\ alive
    /\ wpc["dynamic"] = "Rps"
    /\ limiter' = [limiter EXCEPT !.Rps = cfgDynamic.LimiterRps]
    /\ wpc' = [wpc EXCEPT !["dynamic"] = "Burst"]
    /\ UNCHANGED << main, handler,
                    now, alive, file, pending, cfgDynamic, smtp,
                    dbConnString, pool, mu, clients, req, last, sweep, track, notes, mail, quit,
                    store, edit >>

\* Variant: a reload that rebuilds the map of clients when it sets Burst.
ApplyBurstRebuild ==
    /\ alive
    /\ wpc["dynamic"] = "Burst"
    /\ limiter' = [limiter EXCEPT !.Burst = cfgDynamic.LimiterBurst]
    /\ clients' = NoClients
    /\ wpc' = [wpc EXCEPT !["dynamic"] = "Enabled"]
    /\ UNCHANGED << main, handler,
                    now, alive, file, pending, cfgDynamic, smtp,
                    dbConnString, pool, mu, req, last, sweep, track, notes, mail, quit,
                    store, edit >>

ApplyBurst ==
    /\ alive
    /\ wpc["dynamic"] = "Burst"
    /\ limiter' = [limiter EXCEPT !.Burst = cfgDynamic.LimiterBurst]
    /\ wpc' = [wpc EXCEPT !["dynamic"] = "Enabled"]
    /\ UNCHANGED << main, handler,
                    now, alive, file, pending, cfgDynamic, smtp,
                    dbConnString, pool, mu, clients, req, last, sweep, track, notes, mail, quit,
                    store, edit >>

\* Variant: a reload that does not assign Enabled.
ApplyEnabledSkipped ==
    /\ alive
    /\ wpc["dynamic"] = "Enabled"
    /\ wpc' = [wpc EXCEPT !["dynamic"] = "idle"]
    /\ UNCHANGED << main, handler,
                    now, alive, file, pending, cfgDynamic, limiter, smtp,
                    dbConnString, pool, mu, clients, req, last, sweep, track, notes, mail, quit,
                    store, edit >>

ApplyEnabled ==
    /\ alive
    /\ wpc["dynamic"] = "Enabled"
    /\ limiter' = [limiter EXCEPT !.Enabled = cfgDynamic.LimiterEnabled]
    /\ wpc' = [wpc EXCEPT !["dynamic"] = "idle"]
    /\ UNCHANGED << main, handler,
                    now, alive, file, pending, cfgDynamic, smtp,
                    dbConnString, pool, mu, clients, req, last, sweep, track, notes, mail, quit,
                    store, edit >>

\* main.go:222-225. The mail callback's four assignments, one at a time.
ApplySMTP(field, next) ==
    /\ alive
    /\ wpc["smtp"] = field
    /\ smtp' = [smtp EXCEPT ![field] = cfgDynamic.SMTP]
    /\ wpc' = [wpc EXCEPT !["smtp"] = next]
    /\ UNCHANGED << main, handler,
                    now, alive, file, pending, cfgDynamic, limiter,
                    dbConnString, pool, mu, clients, req, last, sweep, track, notes, mail, quit,
                    store, edit >>

\* main.go:192-196. The connection string is rebuilt from cfgDynamic.
ApplyConnString ==
    /\ alive
    /\ wpc["db"] = "ConnString"
    /\ dbConnString' = cfgDynamic.DB
    /\ wpc' = [wpc EXCEPT !["db"] = "Close"]
    /\ UNCHANGED << main, handler,
                    now, alive, file, pending, cfgDynamic, limiter,
                    smtp, pool, mu, clients, req, last, sweep, track, notes, mail, quit,
                    store, edit >>

\* The handlers that hold a connection of the wrapper's pool.
Holding == {h \in Handlers : handler[h].pc \in {"Getting", "Updating"}}

\* main.go:199. Pool.Close() is called on the pool in use, before its
\* successor exists: from now on the pool hands out no connection.
ClosePool ==
    /\ alive
    /\ wpc["db"] = "Close"
    /\ pool' = [pool EXCEPT !.open = FALSE]
    /\ wpc' = [wpc EXCEPT !["db"] = "Closing"]
    /\ UNCHANGED << main, handler,
                    now, alive, file, pending, cfgDynamic, limiter,
                    smtp, dbConnString, mu, clients, req, last, sweep, track, notes, mail, quit,
                    store, edit >>

\* Variant: a Close that returns with connections still checked out.
ReleasedNever == TRUE

\* pgxpool.Pool.Close blocks until every connection is back in the pool.
Released == Holding = {}

\* main.go:199. Pool.Close() returns.
CloseReturn ==
    /\ alive
    /\ wpc["db"] = "Closing"
    /\ Released
    /\ wpc' = [wpc EXCEPT !["db"] = "Create"]
    /\ UNCHANGED << main, handler,
                    now, alive, file, pending, cfgDynamic, limiter,
                    smtp, dbConnString, pool, mu, clients, req, last, sweep, track, notes, mail, quit,
                    store, edit >>

\* Variant: a CreatePool that counts its attempts, failed ones included.
CreatePoolCountsAttempts(up) ==
    /\ alive
    /\ wpc["db"] = "Create"
    /\ IF up
       THEN /\ pool' = [open |-> TRUE, serial |-> pool.serial + 1, err |-> FALSE,
                         cand |-> "published"]
            /\ wpc' = [wpc EXCEPT !["db"] = "idle"]
            /\ UNCHANGED alive
       ELSE /\ alive' = FALSE
            /\ \E built \in BOOLEAN :
                   pool' = [pool EXCEPT !.err = TRUE, !.serial = @ + 1,
                                        !.cand = IF built THEN AfterFailedPing ELSE "none"]
            /\ UNCHANGED wpc
    /\ UNCHANGED << main, handler,
                    now, file, pending, cfgDynamic, limiter, smtp,
                    dbConnString, mu, clients, req, last, sweep, track, notes, mail, quit,
                    store, edit >>

\* permission.go:106-136 with main.go:200-204. CreatePool: when the pool is
\* built and answers the ping it becomes the wrapper's pool and the serial
\* number grows by one; when not, the callback logs the error and exits.
CreatePool(up) ==
    /\ alive
    /\ wpc["db"] = "Create"
    /\ IF up
       THEN /\ pool' = [open |-> TRUE, serial |-> pool.serial + 1, err |-> FALSE,
                         cand |-> "published"]
            /\ wpc' = [wpc EXCEPT !["db"] = "idle"]
            /\ UNCHANGED alive
       ELSE /\ alive' = FALSE
            /\ \E built \in BOOLEAN :
                   pool' = [pool EXCEPT !.err = TRUE,
                                        !.cand = IF built THEN AfterFailedPing ELSE "none"]
            /\ UNCHANGED wpc
    /\ UNCHANGED << main, handler,
                    now, file, pending, cfgDynamic, limiter, smtp,
                    dbConnString, mu, clients, req, last, sweep, track, notes, mail, quit,
                    store, edit >>

\* --------------------------------------------------------- specifications

\* A step of the environment, counted against a bound of n events, and a step
\* of the program.
Env(n) == events < n /\ events' = events + 1
Prog == UNCHANGED events

\* The request goroutine a new request runs on: the first one that is free.
Free(r) == req[r].pc = "idle" /\ \A q \in Reqs : req[q].pc = "idle" => r <= q

\* The address a new request comes from: the first address the server ever
\* sees is called "a".
Known(ip) == ip = "a" \/ last # NoCall \/ \E q \in Reqs : req[q].pc # "idle"

\* The contents of s that decode.
Decodable(s) == {c \in Contents(s) : c.ok}

\* The admission middleware under requests, the sweep and reloads of
\* dynamic.env with contents that decode, with time passing in seconds and
\* minutes.
Next ==
    \/ \E d \in CoarseSteps : Env(MaxEvents) /\ Tick(d)
    \/ \E r \in Reqs, ip \in IPs : Env(MaxEvents) /\ Free(r) /\ Known(ip) /\ Begin(r, ip)
    \/ \E c \in Decodable("dynamic") : Env(MaxEvents) /\ Edit("dynamic", c, 1)
    \/ \E r \in Reqs : Prog /\ Lock(r)
    \/ \E r \in Reqs : Prog /\ New(r)
    \/ \E r \in Reqs : Prog /\ Allow(r)
    \/ Prog /\ SweepWake
    \/ Prog /\ SweepRun
    \/ Prog /\ Notify("dynamic")
    \/ Prog /\ Load("dynamic")
    \/ Prog /\ ApplyRps
    \/ Prog /\ ApplyBurst
    \/ Prog /\ ApplyEnabled

Spec == Init /\ [][Next]_vars

\* A burst of requests against each limiter setting, one second passing at a
\* time: no file is edited and the sweep, asleep for a minute, never wakes.
InitBurst == \E r \in Rates, b \in Bursts : InitWith([rps |-> r, burst |-> b, enabled |-> TRUE])

NextBurst ==
    \/ Env(MaxBurstEvents) /\ Tick(Second)
    \/ \E r \in Reqs, ip \in IPs : Env(MaxBurstEvents) /\ Free(r) /\ Begin(r, ip)
    \/ \E r \in Reqs : Prog /\ Lock(r)
    \/ \E r \in Reqs : Prog /\ New(r)
    \/ \E r \in Reqs : Prog /\ Allow(r)

SpecBurst == InitBurst /\ [][NextBurst]_vars

\* The three watchers and their callbacks, with time passing in steps of half
\* a debounce window.
NextWatch ==
    \/ \E d \in FineSteps : Env(MaxWatchEvents) /\ Tick(d)
    \/ \E s \in Sources : \E c \in Contents(s), k \in 1..2 :
           Env(MaxWatchEvents) /\ Edit(s, c, k)
    \/ \E s \in Sources : Prog /\ Notify(s)
    \/ \E s \in Sources : Prog /\ Load(s)
    \/ Prog /\ ApplyRps
    \/ Prog /\ ApplyBurst
    \/ Prog /\ ApplyEnabled
    \/ Prog /\ ApplySMTP("Username", "Password")
    \/ Prog /\ ApplySMTP("Password", "AuthAddress")
    \/ Prog /\ ApplySMTP("AuthAddress", "ServerAddress")
    \/ Prog /\ ApplySMTP("ServerAddress", "idle")
    \/ Prog /\ ApplyConnString
    \/ Prog /\ ClosePool
    \/ Prog /\ CloseReturn
    \/ \E up \in BOOLEAN : Prog /\ CreatePool(up)

SpecWatch == Init /\ [][NextWatch]_vars

\* main() from its first LoadConfig on, with the files written, requests sent
\* and time passing from the very start.
NextStart ==
    \/ \E d \in FineSteps : Env(MaxStartEvents) /\ Tick(d)
    \/ \E s \in Sources : \E c \in Contents(s) : Env(MaxStartEvents) /\ Edit(s, c, 1)
    \/ \E r \in Reqs, ip \in IPs : Env(MaxStartEvents) /\ Free(r) /\ Begin(r, ip)
    \/ \E s \in Sources : Prog /\ StartLoad(s)
    \/ Prog /\ BuildConfig
    \/ \E up \in BOOLEAN : Prog /\ StartPool(up)
    \/ Prog /\ StartWatchers
    \/ Prog /\ Serve
    \/ \E r \in Reqs : Prog /\ Lock(r)
    \/ \E r \in Reqs : Prog /\ New(r)
    \/ \E r \in Reqs : Prog /\ Allow(r)
    \/ \E s \in Sources : Prog /\ Notify(s)
    \/ \E s \in Sources : Prog /\ Load(s)

SpecStart == InitStart /\ [][NextStart]_vars

\* The three watchers and their callbacks while each file is rewritten with
\* new contents, one event per write.
NextFacet ==
    \/ \E d \in FineSteps : Env(MaxFacetEvents) /\ Tick(d)
    \/ \E s \in Sources : \E c \in Contents(s) : Env(MaxFacetEvents) /\ Edit(s, c, 1)
    \/ \E s \in Sources : Prog /\ Notify(s)
    \/ \E s \in Sources : Prog /\ Load(s)
    \/ Prog /\ ApplyRps
    \/ Prog /\ ApplyBurst
    \/ Prog /\ ApplyEnabled
    \/ Prog /\ ApplySMTP("Username", "Password")
    \/ Prog /\ ApplySMTP("Password", "AuthAddress")
    \/ Prog /\ ApplySMTP("AuthAddress", "ServerAddress")
    \/ Prog /\ ApplySMTP("ServerAddress", "idle")
    \/ Prog /\ ApplyConnString
    \/ Prog /\ ClosePool
    \/ Prog /\ CloseReturn
    \/ \E up \in BOOLEAN : Prog /\ CreatePool(up)

SpecFacet == Init /\ [][NextFacet]_vars

\* The handler goroutine a new data-access request runs on: the first free.
FreeHandler(h) ==
    handler[h].pc = "idle" /\ \A q \in Handlers : handler[q].pc = "idle" => h <= q

\* Data-access requests under reloads of dynamic_db_secret.env with contents
\* that decode.
NextPool ==
    \/ \E d \in FineSteps : Env(MaxPoolEvents) /\ Tick(d)
    \/ \E c \in Decodable("db") : Env(MaxPoolEvents) /\ Edit("db", c, 1)
    \/ \E h \in Handlers : Env(MaxPoolEvents) /\ FreeHandler(h) /\ StartJob(h)
    \/ \E h \in Handlers : Prog /\ Acquire(h)
    \/ \E h \in Handlers : Prog /\ Release(h)
    \/ Prog /\ Notify("db")
    \/ Prog /\ Load("db")
    \/ Prog /\ ApplyConnString
    \/ Prog /\ ClosePool
    \/ Prog /\ CloseReturn
    \/ \E up \in BOOLEAN : Prog /\ CreatePool(up)

SpecPool == Init /\ [][NextPool]_vars

\* The three watchers while the files are written again with the contents
\* they hold already.
NextTouch ==
    \/ \E d \in FineSteps : Env(MaxTouchEvents) /\ Tick(d)
    \/ \E s \in Sources, k \in 1..2 : Env(MaxTouchEvents) /\ Edit(s, file[s], k)
    \/ \E s \in Sources : Prog /\ Notify(s)
    \/ \E s \in Sources : Prog /\ Load(s)
    \/ Prog /\ ApplyRps
    \/ Prog /\ ApplyBurst
    \/ Prog /\ ApplyEnabled
    \/ Prog /\ ApplySMTP("Username", "Password")
    \/ Prog /\ ApplySMTP("Password", "AuthAddress")
    \/ Prog /\ ApplySMTP("AuthAddress", "ServerAddress")
    \/ Prog /\ ApplySMTP("ServerAddress", "idle")
    \/ Prog /\ ApplyConnString
    \/ Prog /\ ClosePool
    \/ Prog /\ CloseReturn
    \/ \E up \in BOOLEAN : Prog /\ CreatePool(up)

SpecTouch == Init /\ [][NextTouch]_vars

\* Mails sent under reloads of dynamic_smtp_secret.env with contents that
\* decode.
NextMail ==
    \/ \E d \in FineSteps : Env(MaxMailEvents) /\ Tick(d)
    \/ \E c \in Decodable("smtp") : Env(MaxMailEvents) /\ Edit("smtp", c, 1)
    \/ Env(MaxMailEvents) /\ StartSend
    \/ Prog /\ SendFrom
    \/ Prog /\ SendRead("Username", "Password")
    \/ Prog /\ SendRead("Password", "AuthAddress")
    \/ Prog /\ SendRead("AuthAddress", "ServerAddress")
    \/ Prog /\ SendRead("ServerAddress", "sent")
    \/ Prog /\ Notify("smtp")
    \/ Prog /\ Load("smtp")
    \/ Prog /\ ApplySMTP("Username", "Password")
    \/ Prog /\ ApplySMTP("Password", "AuthAddress")
    \/ Prog /\ ApplySMTP("AuthAddress", "ServerAddress")
    \/ Prog /\ ApplySMTP("ServerAddress", "idle")

SpecMail == Init /\ [][NextMail]_vars

\* Data-access requests whose handlers may panic.
NextPanic ==
    \/ \E d \in FineSteps : Env(MaxPanicEvents) /\ Tick(d)
    \/ \E h \in Handlers : Env(MaxPanicEvents) /\ FreeHandler(h) /\ StartJob(h)
    \/ \E h \in Handlers : Prog /\ Acquire(h)
    \/ \E h \in Handlers : Prog /\ Release(h)
    \/ \E h \in Handlers : Prog /\ Panic(h)

SpecPanic == Init /\ [][NextPanic]_vars

\* Data-access requests, reloads of dynamic_db_secret.env and a shutdown
\* signal, with time passing in steps of the debounce window and of the
\* grace period.
NextStop ==
    \/ \E d \in {Debounce + Debounce \div 2, GracePeriod} : Env(MaxStopEvents) /\ Tick(d)
    \/ \E c \in Decodable("db") : Env(MaxStopEvents) /\ Edit("db", c, 1)
    \/ \E h \in Handlers : Env(MaxStopEvents) /\ FreeHandler(h) /\ StartJob(h)
    \/ Env(MaxStopEvents) /\ Signal
    \/ \E h \in Handlers : Prog /\ Acquire(h)
    \/ \E h \in Handlers : Prog /\ Release(h)
    \/ Prog /\ Notify("db")
    \/ Prog /\ Load("db")
    \/ Prog /\ ApplyConnString
    \/ Prog /\ ClosePool
    \/ Prog /\ CloseReturn
    \/ \E up \in BOOLEAN : Prog /\ CreatePool(up)
    \/ Prog /\ ShutdownReturn
    \/ Prog /\ ShutdownTimeout
    \/ Prog /\ SendErr
    \/ Prog /\ ExitOnError
    \/ Prog /\ WaitReturn
    \/ Prog /\ SendNil
    \/ Prog /\ DeferredClose

SpecStop == Init /\ [][NextStop]_vars

\* Requests, welcome mails sent in the background and a shutdown signal,
\* with time passing in seconds and in steps of the grace period.
NextServe ==
    \/ \E d \in {Second, GracePeriod} : Env(MaxServeEvents) /\ Tick(d)
    \/ \E h \in Handlers : Env(MaxServeEvents) /\ FreeHandler(h) /\ StartJob(h)
    \/ Env(MaxServeEvents) /\ StartSend
    \/ Env(MaxServeEvents) /\ Signal
    \/ \E h \in Handlers : Prog /\ Acquire(h)
    \/ \E h \in Handlers : Prog /\ Release(h)
    \/ Prog /\ SendFrom
    \/ Prog /\ SendRead("Username", "Password")
    \/ Prog /\ SendRead("Password", "AuthAddress")
    \/ Prog /\ SendRead("AuthAddress", "ServerAddress")
    \/ Prog /\ SendRead("ServerAddress", "sent")
    \/ Prog /\ ShutdownReturn
    \/ Prog /\ ShutdownTimeout
    \/ Prog /\ SendErr
    \/ Prog /\ ExitOnError
    \/ Prog /\ WaitReturn
    \/ Prog /\ SendNil
    \/ Prog /\ DeferredClose

SpecServe == Init /\ [][NextServe]_vars

\* The request goroutine a new update request runs on: the first free.
FreeEditor(e) ==
    edit[e].pc = "idle" /\ \A q \in Editors : edit[q].pc = "idle" => e <= q

\* Concurrent requests that update the movie and requests that activate the
\* user.
NextEdit ==
    \/ \E e \in Editors, t \in Titles :
           Env(MaxEditEvents) /\ FreeEditor(e) /\ StartEdit(e, "movie", t)
    \/ \E e \in Editors : Env(MaxEditEvents) /\ FreeEditor(e) /\ StartEdit(e, "user", 0)
    \/ \E e \in Editors : Prog /\ GetMovie(e)
    \/ \E e \in Editors : Prog /\ UpdateMovie(e)
    \/ \E e \in Editors : Prog /\ GetForToken(e)
    \/ \E e \in Editors : Prog /\ UpdateUser(e)
    \/ \E e \in Editors : Prog /\ DeleteTokens(e)

SpecEdit == Init /\ [][NextEdit]_vars

\* Concurrent requests and the sweep, with time passing in seconds and in
\* steps of the idle threshold.
NextGate ==
    \/ \E d \in CoarseSteps : Env(MaxGateEvents) /\ Tick(d)
    \/ \E r \in Reqs, ip \in IPs : Env(MaxGateEvents) /\ Free(r) /\ Begin(r, ip)
    \/ \E r \in Reqs : Prog /\ Lock(r)
    \/ \E r \in Reqs : Prog /\ New(r)
    \/ \E r \in Reqs : Prog /\ Allow(r)
    \/ Prog /\ SweepWake
    \/ Prog /\ SweepRun

SpecGate == Init /\ [][NextGate]_vars

\* A step of request goroutine r in the handler, and a step of the sweep
\* goroutine.
GateStep(r) == Prog /\ (Lock(r) \/ New(r) \/ Allow(r))
SweepGoroutineStep == Prog /\ (SweepWake \/ SweepRun)

\* The same with the scheduler's promise: a goroutine that can take a step is
\* not kept from it forever, and sync.Mutex hands the mutex to a goroutine
\* that waits for it once it stays free.
SpecGateFair ==
    /\ SpecGate
    /\ \A r \in Reqs : WF_vars(GateStep(r))
    /\ WF_vars(SweepGoroutineStep)

\* Requests and the sweep under a limiter that is not reloaded, at one token
\* per second or at one token per 200 seconds, with an observer counting the
\* admissions of an address from a moment of its choice.
InitSlow ==
    \E r \in {1, SlowRate}, b \in Bursts :
        InitWith([rps |-> r, burst |-> b, enabled |-> TRUE])

NextSlow ==
    \/ \E d \in CoarseSteps : Env(MaxSlowEvents) /\ Tick(d)
    \/ \E r \in Reqs, ip \in IPs : Env(MaxSlowEvents) /\ Free(r) /\ Known(ip) /\ Begin(r, ip)
    \/ \E r \in Reqs : Prog /\ Lock(r)
    \/ \E r \in Reqs : Prog /\ New(r)
    \/ \E r \in Reqs : Prog /\ Allow(r)
    \/ Prog /\ SweepWake
    \/ Prog /\ SweepRun
    \/ \E ip \in IPs : Prog /\ Observe(ip)

SpecSlow == InitSlow /\ [][NextSlow]_vars

\* A step of a watcher goroutine or of its callback.
WatchStep ==
    /\ Prog
    /\ \/ \E s \in Sources : Notify(s) \/ Load(s)
       \/ ApplyRps \/ ApplyBurst \/ ApplyEnabled
       \/ \E f \in {"Username", "Password", "AuthAddress", "ServerAddress"} :
              \E n \in {"Password", "AuthAddress", "ServerAddress", "idle"} : ApplySMTP(f, n)
       \/ ApplyConnString \/ ClosePool \/ CloseReturn
       \/ \E up \in BOOLEAN : CreatePool(up)

\* The watchers with the scheduler's promise: a watcher goroutine that can
\* take a step is not kept from it forever.
SpecWatchFair == SpecWatch /\ WF_vars(WatchStep)

\* ------------------------------------------------------------------ claims

\* The entry of ip and the milli-tokens it has available now.
Available(ip) == Tokens(clients[ip].limiter, now)

\* What a burst leaves for the second after it: the bucket of b tokens less
\* the a0 taken, refilled at r tokens per second and capped at b.
AfterOneSecond(r, b, a0) == Min(b, b - a0 + r)

\* C1, as stated: of the n0 calls made at the instant an address got its
\* entry exactly the first min(n0, b) are admitted, and of the n1 calls made
\* exactly one second later exactly r more are (as far as n1 reaches).
C1_BurstThenRate ==
    \A ip \in DOMAIN clients :
        LET tr == track[ip]
        IN  /\ tr.ph \in {"t0", "t1"} => tr.a0 = Min(tr.n0, limiter.Burst)
            /\ tr.ph = "t1" => tr.a1 = Min(tr.n1, limiter.Rps)

\* C1, amended: exactly the first min(n0, b) calls of the burst are admitted;
\* one second later exactly min(b, b - min(n0, b) + r) more are, which is r
\* when the burst used up the bucket and r does not exceed b.
C1_BurstThenRefill ==
    \A ip \in DOMAIN clients :
        LET tr == track[ip]
        IN  /\ tr.ph \in {"t0", "t1"} => tr.a0 = Min(tr.n0, limiter.Burst)
            /\ tr.ph = "t1" =>
                   tr.a1 = Min(tr.n1, AfterOneSecond(limiter.Rps, limiter.Burst, tr.a0))

\* A burst of three calls against a bucket of two, then two calls a second
\* later at one token per second: rejections in both phases.
C1_Witness ==
    \E ip \in DOMAIN clients :
        /\ limiter.Rps = 1 /\ limiter.Burst = 2
        /\ track[ip].ph = "t1"
        /\ track[ip].n0 = 3 /\ track[ip].a0 = 2
        /\ track[ip].n1 = 2 /\ track[ip].a1 = 1

\* C2, as stated: every entry has at least no token and at most as many as
\* the burst configured now.
C2_TokensWithinBurst ==
    \A ip \in DOMAIN clients :
        /\ Available(ip) >= 0
        /\ Available(ip) <= limiter.Burst * Second

Arrival == events' # events /\ now' = now /\ pending' = pending

\* The arriving request was passed to the next handler at once.
PassedOn == req' = req /\ clients' = clients /\ ~last'.en /\ last'.out = "next"

\* C4: a request arriving while Enabled is false is passed to the next
\* handler whatever the state of the map; the flag is the one of that moment.
C4_DisabledAdmits == [][(Arrival /\ ~limiter.Enabled) => PassedOn]_vars

\* With Enabled false a request of an address whose bucket is empty was
\* passed on.
C4_Witness ==
    /\ ~limiter.Enabled
    /\ ~last.en /\ last.out = "next"
    /\ last.ip \in DOMAIN clients
    /\ Available(last.ip) < Second

\* The last load of dynamic.env read enabled=false and its callback is done.
DisabledApplied ==
    /\ notes["dynamic"].n > 0
    /\ wpc["dynamic"] = "idle"
    /\ ~cfgDynamic.LimiterEnabled

C6_ReloadGovernsExisting ==
    \A ip \in DOMAIN clients :
        (wpc["dynamic"] = "idle" /\ track[ip].born < notes["dynamic"].n) =>
            /\ clients[ip].limiter.limit = limiter.Rps
            /\ clients[ip].limiter.burst = limiter.Burst

\* A step of the callback of dynamic.env: the debounce test passing, the
\* load, or one of the three assignments.
ReloadStep == wpc'["dynamic"] # wpc["dynamic"]

\* C7: no step of a reload of dynamic.env changes the map of clients: every
\* entry is there before and after, with its tokens and its lastSeen.
C7_ReloadKeepsEntries == [][ReloadStep => clients' = clients]_vars

\* A reload was done while an entry short of a token stood in the map.
C7_Witness ==
    /\ notes["dynamic"].n > 0
    /\ wpc["dynamic"] = "idle"
    /\ \E ip \in DOMAIN clients :
           /\ track[ip].born < notes["dynamic"].n
           /\ Available(ip) < clients[ip].limiter.burst * Second
           /\ clients[ip].lastSeen # ZeroTime

\* The call of request r to the limiter ends: Allow answered.
Answered(r) == req[r].pc = "allow" /\ req'[r].pc = "idle"

\* C8, as stated: every call of the handler, admitted or rejected, with the
\* limiter enabled or not, leaves the address with an entry seen now.
C8_EveryCallMarksSeen ==
    [][((\E r \in Reqs : Answered(r)) \/ (Arrival /\ ~EnabledNow)) =>
           /\ last'.ip \in DOMAIN clients'
           /\ clients'[last'.ip].lastSeen = now]_vars

\* C8, amended: every call made with the limiter enabled, admitted or
\* rejected, sets the lastSeen of its address to the time of the call; a call
\* made with the limiter disabled leaves the map as it is.
C8_EnabledCallMarksSeen ==
    [][/\ \A r \in Reqs : Answered(r) =>
              /\ last'.ip = req[r].ip /\ last'.en
              /\ clients'[req[r].ip].lastSeen = now
       /\ (Arrival /\ ~EnabledNow) => clients' = clients]_vars

\* A call was rejected with 429 and its address is marked seen at the time of
\* that call.
C8_Witness ==
    /\ last.en /\ last.out = "429"
    /\ last.ip \in DOMAIN clients
    /\ clients[last.ip].lastSeen = now
    /\ now > 0

\* The sweep runs: it holds the mutex from its first deletion to its last.
SweepStep == sweep.pc = "lock" /\ sweep'.pc = "sleep"

\* C9: after a sweep no entry is left that was last seen more than three
\* minutes before it; an entry seen within the three minutes stays.
C9_SweepEvictsIdle ==
    [][SweepStep =>
           /\ \A ip \in DOMAIN clients' : now - clients'[ip].lastSeen <= IdleThreshold
           /\ \A ip \in DOMAIN clients :
                  now - clients[ip].lastSeen <= IdleThreshold =>
                      (ip \in DOMAIN clients' /\ clients'[ip] = clients[ip])]_vars

\* A sweep has just run and the address of the last call, which had an entry
\* when it was answered, has none.
C9_Witness ==
    /\ sweep.pc = "sleep" /\ sweep.from = now
    /\ last.en
    /\ last.ip \notin DOMAIN clients

\* C10, as stated: of two notifications of one source at most 50 ms apart,
\* the first of them more than the debounce window after the source's own
\* last load, exactly one goes on to LoadConfig.
C10_OneReloadPerPair ==
    \A s \in Sources :
        LET p == notes[s].prev
            l == notes[s].last
        IN  (p.at >= 0 /\ l.at - p.at <= Debounce \div 2 /\ p.at - p.own > Debounce) =>
                (p.loaded # l.loaded)

\* C11, as stated: a notification of a source that comes more than the
\* debounce window after that source's own last load goes on to LoadConfig,
\* whatever was loaded for the other sources.
C11_OwnLoadTimeDecides ==
    \A s \in Sources :
        LET l == notes[s].last
        IN  (l.at >= 0 /\ l.at - l.own > Debounce) => l.loaded

\* C13, as stated: no error of a reload ends the process.
C13_ReloadErrorAbsorbed == main.pc = "Serving" => alive

\* What is applied for source s is what its file holds, for a file that decodes.
Applied(s) ==
    file[s].ok =>
        IF s = "dynamic"
        THEN limiter = [Rps |-> file[s].val.rps, Burst |-> file[s].val.burst,
                        Enabled |-> file[s].val.enabled]
        ELSE IF s = "db" THEN dbConnString = file[s].val /\ pool.open
        ELSE smtp = SMTPOf(file[s].val)

\* C12, as stated: once the files stop changing, what is applied comes to
\* equal what they hold, and stays so, as long as the process runs.
C12_FinalEditApplied == <>[](alive => \A s \in Sources : Applied(s))

\* No request was taken and no watcher has handled an event.
NothingServed ==
    /\ last = NoCall
    /\ \A r \in Reqs : req[r].pc = "idle"
    /\ \A s \in Sources : wpc[s] = "idle" /\ notes[s].last = NoNote

\* C14: a process whose startup failed has exited with no request taken and no
\* watcher started; one that takes requests or watches has loaded all three
\* files and has its first pool.
C14_StartupFailureIsFatal ==
    /\ (~alive /\ ~Watching) => NothingServed
    /\ (Watching \/ ~NothingServed) => (main.loaded = Sources /\ pool.serial >= 1)

\* The third file did not decode and main() exited.
C14_Witness ==
    /\ ~alive
    /\ main.pc = "smtp" /\ ~file["smtp"].ok
    /\ pending["dynamic"] > 0

\* C15, as stated: when CreatePool fails in a reload, the pool of before the
\* reload is still the wrapper's pool and is open.
C15_FailedSwapKeepsPool == pool.err => pool.open

\* C16, as stated: after a failed pool swap the process runs on, its limiter
\* and mail watchers with it.
C16_FacetsSurvivePoolFailure == pool.err => (alive /\ Watching)

\* The serial number of the pool whose connection handler h holds.
ConnGen(h) == IF handler[h].pc = "Getting" THEN handler[h].g1 ELSE handler[h].g2

\* Close has returned for the pool of serial number g.
Closed(g) ==
    \/ g < pool.serial
    \/ g = pool.serial /\ ~pool.open /\ wpc["db"] # "Closing"

C18_PoolContinuity ==
    /\ \A h \in Handlers : handler[h].g1 > 0 => ~handler[h].err
    /\ \A h \in Holding : ConnGen(h) = pool.serial

\* C19, as stated: while the server runs the wrapper's pool is open.
C19_PoolAlwaysOpen == (alive /\ Serving) => pool.open

\* C20, as stated: the two operations of one request run on the same pool.
C20_OneGenerationPerRequest ==
    \A h \in Handlers :
        (handler[h].g1 > 0 /\ handler[h].g2 > 0) => handler[h].g1 = handler[h].g2

\* A pool is published: the wrapper's handle is replaced by a pool that is open.
Published == pool'.open /\ ~pool.open

\* C21: the serial number never decreases; a step that publishes a pool adds
\* exactly one to it and every other step, a failed CreatePool included,
\* leaves it as it is: it counts the pools published.
C21_SerialCountsPools ==
    [][/\ pool'.serial >= pool.serial
       /\ Published => pool'.serial = pool.serial + 1
       /\ ~Published => pool'.serial = pool.serial]_vars

\* A reload published the second pool and the CreatePool of the next reload
\* failed.
C21_Witness == pool.serial = 2 /\ pool.err /\ notes["db"].n = 2

\* The limiter parameters and the mail credentials are those of startup.
StartupSettings ==
    /\ limiter = [Rps |-> StartLimiter.rps, Burst |-> StartLimiter.burst,
                  Enabled |-> StartLimiter.enabled]
    /\ smtp = SMTPOf(1)

\* C22, as stated: while the files are only written again with the contents
\* they hold, the limiter parameters, the mail credentials and the pool with
\* its serial number stay those of startup.
C22_UnchangedReloadIsIdle ==
    /\ StartupSettings
    /\ pool = [open |-> TRUE, serial |-> 1, err |-> FALSE, cand |-> "published"]

\* The credentials the mail goroutine gave to the SMTP client.
Used == [Username |-> mail.Username, Password |-> mail.Password,
         AuthAddress |-> mail.AuthAddress, ServerAddress |-> mail.ServerAddress]

\* C23, as stated: a mail is sent with the four credentials of one version of
\* dynamic_smtp_secret.env, never with fields of two versions.
C23_SendUsesOneVersion == mail.pc = "sent" => \E v \in {1, 2} : Used = SMTPOf(v)

\* The limiter settings dynamic.env has held: those of startup and those an
\* edit wrote.
Snapshots == {StartLimiter} \cup EditedLimiter

\* C24, as stated: every entry was built with the rate and the burst of one
\* and the same version of dynamic.env.
C24_EntryOfOneSnapshot ==
    \A ip \in DOMAIN clients :
        \E c \in Snapshots :
            /\ clients[ip].limiter.limit = c.rps
            /\ clients[ip].limiter.burst = c.burst

\* The request of handler h ends in a panic.
Panics(h) == ~handler[h].panic /\ handler'[h].panic

\* C25: recoverPanic wraps rate limiting, authentication and the router with
\* its route handlers; a request that panics is answered 500 with the error
\* logged with method and URI, and the process still runs and takes requests.
C25_PanicRecovered ==
    [][\A h \in Handlers : Panics(h) =>
           /\ \A st \in {"rateLimit", "authenticate", "router"} : Guarded(st)
           /\ handler'[h].out = [status |-> 500, logged |-> TRUE]
           /\ handler'[h].pc = "idle"
           /\ alive' /\ Serving']_vars

\* One request panicked and was answered 500; another one, in flight then,
\* ran both its operations and finished.
C25_Witness ==
    \E h, g \in Handlers :
        /\ handler[h].panic /\ handler[h].out.status = 500 /\ handler[h].g1 > 0
        /\ handler[g].pc = "idle" /\ handler[g].g2 > 0 /\ ~handler[g].panic

\* C26: of a request that went through rateLimit exactly one holds: the next
\* handler ran exactly once and rateLimit wrote nothing, or rateLimit wrote
\* 429 and the next handler never ran; the first is the case of an admission
\* (or of the limiter disabled), the second that of a rejection.
C26_NextOrRejection ==
    last # NoCall =>
        IF last.en /\ last.out = "429"
        THEN last.next = 0 /\ last.status = 429
        ELSE last.next = 1 /\ last.status = 0

\* A request of a burst was rejected: 429 was written and the next handler
\* did not run.
C26_Witness ==
    /\ last.en /\ last.out = "429"
    /\ last.status = 429 /\ last.next = 0
    /\ track[last.ip].ph = "t0"

\* C27, as stated: the wrapper's pool is closed only when the server has
\* stopped accepting, the requests in flight have drained and serve() has
\* returned; and at the end of a shutdown it is closed.
C27_PoolsClosedAfterDrain ==
    /\ ~pool.open => (main.pc = "Exited" /\ ~InFlight)
    /\ main.pc = "Exited" => ~pool.open

\* The watcher of s takes an event of its file and calls the callback.
Delivered(s) == pending'[s] < pending[s]

\* C28: the callback of a source is called only when its previous call has
\* returned, its load, its assignments and its pool swap done: no second
\* reload of the source, and no second pool swap, begins before.
C28_OneReloadPerSource ==
    [][\A s \in Sources : Delivered(s) => wpc[s] = "idle" /\ wpc'[s] \in {"idle", "load"}]_vars

\* Two events of one write of dynamic_db_secret.env: the first started a
\* reload with its pool swap, the second was delivered once that callback had
\* returned and was dropped by the debounce test.
C28_Witness ==
    /\ notes["db"].prev.loaded /\ notes["db"].last.at >= 0
    /\ notes["db"].n = 1
    /\ pool.serial = 2 /\ pool.open
    /\ wpc["db"] = "idle" /\ pending["db"] = 0

\* C29, as stated: an event of a source that waits for its watcher can be
\* taken and handed to the callback at once, whatever reload is in flight.
C29_WatcherNeverWaits ==
    \A s \in Sources : (alive /\ Watching /\ pending[s] > 0) => ENABLED Notify(s)

\* C30: the mutex is held only by a request inside its critical section;
\* every request that entered the handler leaves it, and a sweep that woke
\* goes back to sleep: nobody waits for the mutex forever.
C30_AdmissionTerminates ==
    /\ [](mu # Unlocked => req[mu].pc \in {"new", "allow"})
    /\ \A r \in Reqs : (req[r].pc # "idle") ~> (req[r].pc = "idle")
    /\ (sweep.pc = "lock") ~> (sweep.pc = "sleep")

\* The mutex is held by a request that is about to be rejected while another
\* request and the sweep wait for it.
C30_Witness ==
    /\ sweep.pc = "lock"
    /\ \E r, q \in Reqs :
           /\ req[r].pc = "lock"
           /\ mu = q /\ req[q].pc = "allow"
           /\ ~Allows(clients[req[q].ip].limiter, now)

\* CreatePool returns an error.
CreateFails == pool'.err /\ ~pool.err

\* C31: a CreatePool that fails leaves the wrapper's pool and its serial
\* number as they were, and the candidate it built, if any, closed; the
\* wrapper gets a pool only from a CreatePool that succeeds.
C31_CreatePoolAllOrNothing ==
    [][/\ CreateFails =>
              /\ pool'.open = pool.open /\ pool'.serial = pool.serial
              /\ pool'.cand \in {"none", "closed"}
       /\ Published => ~pool'.err /\ pool'.cand = "published"]_vars

\* The ping of a reload's candidate pool failed: the candidate is closed and
\* the wrapper still holds the first pool, which the reload closed before.
C31_Witness ==
    /\ pool.err /\ pool.cand = "closed"
    /\ pool.serial = 1 /\ ~pool.open
    /\ notes["db"].n = 1

\* C32: a sweep deletes only entries last seen more than three minutes
\* before it, and every entry it keeps has its limiter, tokens included, and
\* its lastSeen as before.
C32_SweepRemovesOnlyIdle ==
    [][SweepStep =>
           /\ \A ip \in DOMAIN clients \ DOMAIN clients' :
                  now - clients[ip].lastSeen > IdleThreshold
           /\ \A ip \in DOMAIN clients' :
                  ip \in DOMAIN clients /\ clients'[ip] = clients[ip]]_vars

\* A sweep has just run and kept an entry seen exactly three minutes before,
\* short of a token.
C32_Witness ==
    /\ sweep.pc = "sleep" /\ sweep.from = now /\ now > 0
    /\ \E ip \in DOMAIN clients :
           /\ now - clients[ip].lastSeen = IdleThreshold
           /\ clients[ip].limiter.tokens < clients[ip].limiter.burst * Second

\* The admissions of ip counted since the observer started are at most the
\* burst plus what the rate yields over the time since then.
WithinRate(ip) ==
    track[ip].adm * Second <=
        limiter.Burst * Second + Gain(limiter.Rps, now - track[ip].since)

\* C33, as stated: over any interval the admissions of an address are at
\* most b + r*t, whatever the sweep did in between.
C33_RateBound == \A ip \in IPs : track[ip].adm >= 0 => WithinRate(ip)

\* The rate refills a whole bucket within the idle threshold.
RefillCovers == Gain(limiter.Rps, IdleThreshold) >= limiter.Burst * Second

\* C33, amended: the admissions of an address over any interval are at most
\* b + r*t when the rate refills the bucket within the three minutes an entry
\* must be idle to be evicted (r * 180 s >= b).
C33_RateBoundWhenRefilled ==
    \A ip \in IPs : (track[ip].adm >= 0 /\ RefillCovers) => WithinRate(ip)

\* At one token per second an address was admitted, stayed away for more
\* than three minutes, lost its entry to the sweep and got a new one with
\* its next request, which was admitted: both admissions were counted.
C33_Witness ==
    /\ limiter.Rps = 1
    /\ \E ip \in DOMAIN clients :
           /\ track[ip].adm = 2 /\ track[ip].a0 = 1
           /\ track[ip].ph = "t0"
           /\ now - track[ip].since > IdleThreshold
           /\ sweep.from > track[ip].since

\* Request r takes a step of the handler for its address.
Acts(r) == req[r].pc \in {"lock", "new", "allow"} /\ req'[r] # req[r]

\* The entry of ip is the same before and after the step: there or not, and
\* with the same limiter state and last-seen time.
SameEntry(ip) ==
    /\ ip \in DOMAIN clients <=> ip \in DOMAIN clients'
    /\ ip \in DOMAIN clients => clients'[ip] = clients[ip]

\* C34: no step of a call for one address changes the entry of another
\* address: its existence, its tokens and its last-seen time stay.
C34_AllowLeavesOthers ==
    [][\A r \in Reqs : Acts(r) => \A ip \in IPs \ {req[r].ip} : SameEntry(ip)]_vars

\* The call that finished last was one of an address whose entry is marked
\* seen later than the entry of another address, which has been in the map,
\* its bucket spent, since before.
C34_Witness ==
    /\ last.en
    /\ \E ip \in DOMAIN clients \ {last.ip} :
           /\ last.ip \in DOMAIN clients
           /\ clients[ip].lastSeen < clients[last.ip].lastSeen
           /\ clients[ip].limiter.last = clients[ip].lastSeen
           /\ clients[ip].limiter.tokens < limiter.Burst * Second

\* The callback of source s takes a step: it starts, loads, assigns or
\* returns.
Reloads(s) == wpc'[s] # wpc[s]

\* The three facets, each with the fields of cfgDynamic it is loaded into.
LimiterFacet ==
    << limiter, cfgDynamic.LimiterRps, cfgDynamic.LimiterBurst,
       cfgDynamic.LimiterEnabled >>
PoolFacet == << pool, dbConnString, cfgDynamic.DB >>
MailFacet == << smtp, cfgDynamic.SMTP >>

\* C35: a step of the limiter reload leaves the pool (handle and serial) and
\* the mail credentials as they are, a step of the mail reload the limiter
\* parameters and the pool, a step of the database reload the limiter
\* parameters and the mail credentials.
C35_ReloadKeepsOtherFacets ==
    [][/\ Reloads("dynamic") => UNCHANGED << PoolFacet, MailFacet >>
       /\ Reloads("smtp") => UNCHANGED << LimiterFacet, PoolFacet >>
       /\ Reloads("db") => UNCHANGED << LimiterFacet, MailFacet >>]_vars

\* The limiter reload and the mail reload have both run to their end with
\* new contents, and the pool is the one made at startup.
C35_Witness ==
    /\ alive
    /\ \A s \in Sources : wpc[s] = "idle"
    /\ notes["dynamic"].n > 0 /\ notes["smtp"].n > 0
    /\ limiter = [Rps |-> 2, Burst |-> 1, Enabled |-> TRUE]
    /\ smtp = SMTPOf(2)
    /\ pool.open /\ pool.serial = 1 /\ dbConnString = 1

\* The signal goroutine stands at a send on shutdownError while serve() has
\* left its only receive: nobody will take the value.
SendUnreceived == main.sig = "SendNil" /\ main.pc # "Receive"

\* C36, as stated: on either path the signal goroutine sends one value on
\* shutdownError and is done then, and it never stands at a send that
\* nobody receives.
C36_OneSendThenDone ==
    /\ main.sent <= 1
    /\ main.sent = 1 => main.sig = "done"
    /\ ~SendUnreceived

\* serve() has returned, with nil or with the error of srv.Shutdown.
Returned == main.pc \in {"Return", "Failed", "Exited"}

\* C37, as stated: when serve() has returned after a signal, every
\* background task registered in the WaitGroup has finished.
C37_ReturnAfterBackground == Returned => Background = 0

\* The update request of e has called Movie.Update and has been answered.
Updated(e) ==
    edit[e].kind = "movie" /\ edit[e].pc = "idle" /\ ValidMovie(edit[e].val)

C39_ActivationConflict ==
    \A e \in Editors :
        (edit[e].kind = "user" /\ edit[e].pc = "idle" /\ edit[e].err = "ErrEditConflict") =>
            /\ edit[e].status = StatusConflict
            /\ edit[e].status # StatusInternalServerError
            /\ ~edit[e].deleted

====
